---------------------------- MODULE Spec2Model ----------------------------
(***************************************************************************)
(* Model of the PyTest DQ Framework:                                       *)
(*   - DataQualityLibrary (data_quality_validation_library.py): the five   *)
(*     checks, as operators on tables, applied by the actions of SpecTable *)
(*     (one table) and SpecPair (source and target);                       *)
(*   - ParquetReader.process (parquet_reader.py);                          *)
(*   - PostgresConnectorContextManager (postgres_connector.py) and the     *)
(*     pytest session of tests/conftest.py and the test module, as the     *)
(*     state machine Spec.                                                 *)
(*                                                                         *)
(* A table (pandas DataFrame) is a record                                  *)
(*   [columns : sequence of column names,                                  *)
(*    index   : sequence of row labels,                                    *)
(*    rows    : sequence of rows, a row being a function column -> value]. *)
(* Values are integers; Null stands for NaN/None.  The values of the       *)
(* column facility_name are codes of strings (object dtype, compared       *)
(* exactly), those of min_time_spent are numbers (compared with the        *)
(* relative tolerance of the completeness check).                          *)
(***************************************************************************)
EXTENDS Integers, Sequences, FiniteSets, TLC

VARIABLES
    source_df,      \* the table passed as source_df / held by fixture source_data
    target_df,      \* the table passed as df or target_df / held by target_data
    result,         \* outcome of the last library or reader call
    config,         \* command-line options --db_user, --db_password
    phase,          \* position of the pytest session
    connector,      \* PostgresConnectorContextManager: connection, cursor
    closeLog,       \* order in which cursor and connection were closed
    withBlock,      \* the with-block of db_connection: entered, left, and how
    fixtures,       \* per fixture: its cached state and value
    tests,          \* per test: its outcome and the fixture values it saw
    current,        \* the test being run and the fixtures it still has to set up
    attempts,       \* number of connect / query / read calls made
    errors          \* exceptions raised to the caller by the connectors

vars == <<source_df, target_df, result, config, phase, connector, closeLog, withBlock,
          fixtures, tests, current, attempts, errors>>

dqVars == <<source_df, target_df, result>>
sessionVars ==
    <<config, phase, connector, closeLog, withBlock, fixtures, tests, current,
      attempts, errors>>

---------------------------------------------------------------------------
(* Bounds of the model *)

MaxRows == 3        \* rows of a table in SpecTable
MaxPairRows == 2    \* rows of each table in SpecPair
MaxNames == 2       \* length of a column_names argument
MaxDisplay == 2     \* largest max_display argument
MaxBlocks == 2      \* with-statements on one connector in SpecConnector
MaxQueries == 2     \* queries attempted on one connector in SpecConnector

---------------------------------------------------------------------------
(* Values, rows, tables *)

Null == -1

Abs(x) == IF x < 0 THEN -x ELSE x
Max(a, b) == IF a >= b THEN a ELSE b
Min(a, b) == IF a <= b THEN a ELSE b
Range(s) == {s[i] : i \in 1..Len(s)}

RECURSIVE SeqsUpTo(_, _)
SeqsUpTo(S, n) ==
    IF n = 0 THEN {<<>>}
    ELSE LET shorter == SeqsUpTo(S, n - 1)
         IN  shorter \cup {Append(s, x) : s \in {t \in shorter : Len(t) = n - 1}, x \in S}

\* The columns of the dataset of the test module.
NumericColumns == {"min_time_spent"}
ColumnValues(c) ==
    IF c \in NumericColumns THEN {100000, 100001, Null} ELSE {1, Null}

ColumnLists ==
    {<<>>, <<"facility_name">>, <<"min_time_spent">>,
     <<"facility_name", "min_time_spent">>}

RowsOver(cols) ==
    {r \in [Range(cols) -> {1, 100000, 100001, Null}] :
        \A c \in Range(cols) : r[c] \in ColumnValues(c)}

\* pd.RangeIndex(n): the labels 0..n-1
RangeIndex(n) == [i \in 1..n |-> i - 1]

DataFrame(cols, rows) ==
    [columns |-> cols, index |-> RangeIndex(Len(rows)), rows |-> rows]

\* The tables a query or a Parquet read can produce: a table without
\* columns has no rows.
Tables(n) ==
    UNION {{DataFrame(cols, rows) :
              rows \in SeqsUpTo(RowsOver(cols), IF cols = <<>> THEN 0 ELSE n)} :
           cols \in ColumnLists}

EmptyFrame == DataFrame(<<>>, <<>>)

len(df) == Len(df.rows)

\* Faulty variant of empty: only a table without rows and without columns is empty
empty_both_axes(df) == Len(df.rows) = 0 /\ Len(df.columns) = 0

\* DataFrame.empty: any axis has length 0
empty(df) == Len(df.rows) = 0 \/ Len(df.columns) = 0

---------------------------------------------------------------------------
(* pandas operations used by the library *)

\* All i in 1..n with mask[i], in increasing order
RECURSIVE Selected(_, _)
Selected(mask, n) ==
    IF n = 0 THEN <<>>
    ELSE IF mask[n] THEN Append(Selected(mask, n - 1), n) ELSE Selected(mask, n - 1)

\* df[mask]: the rows whose mask is true, with their labels, in order
BoolSelect(df, mask) ==
    LET keep == Selected(mask, Len(df.rows))
    IN  [columns |-> df.columns,
         index   |-> [k \in 1..Len(keep) |-> df.index[keep[k]]],
         rows    |-> [k \in 1..Len(keep) |-> df.rows[keep[k]]]]

\* Faulty variant of duplicated: keep='first', the first occurrence is not marked
duplicated_keep_first(df, subset) ==
    [i \in 1..Len(df.rows) |->
        \E j \in 1..Len(df.rows) :
            j < i /\ \A c \in subset : df.rows[i][c] = df.rows[j][c]]

\* df.duplicated(subset, keep=False): row i is marked iff another row has
\* the same values in every column of subset (NaN equals NaN)
duplicated(df, subset) ==
    [i \in 1..Len(df.rows) |->
        \E j \in 1..Len(df.rows) :
            j # i /\ \A c \in subset : df.rows[i][c] = df.rows[j][c]]

\* Faulty variant of head: the row after the first n is taken too
head_through(df, n) ==
    LET m == Min(n + 1, Len(df.rows))
    IN  [columns |-> df.columns,
         index   |-> SubSeq(df.index, 1, m),
         rows    |-> SubSeq(df.rows, 1, m)]

\* df.head(n)
head(df, n) ==
    LET m == Min(n, Len(df.rows))
    IN  [columns |-> df.columns,
         index   |-> SubSeq(df.index, 1, m),
         rows    |-> SubSeq(df.rows, 1, m)]

\* df.reset_index(drop=True): a new table with the labels 0..n-1
reset_index(df) ==
    [columns |-> df.columns, index |-> RangeIndex(Len(df.rows)), rows |-> df.rows]

\* Order of one column in sort_values: ascending, NaN last
ValueLess(a, b) ==
    IF a = Null THEN FALSE
    ELSE IF b = Null THEN TRUE
    ELSE a < b

\* Lexicographic order of two rows over the columns by[k..]
RECURSIVE RowLess(_, _, _, _)
RowLess(r1, r2, by, k) ==
    IF k > Len(by) THEN FALSE
    ELSE IF ValueLess(r1[by[k]], r2[by[k]]) THEN TRUE
    ELSE IF ValueLess(r2[by[k]], r1[by[k]]) THEN FALSE
    ELSE RowLess(r1, r2, by, k + 1)

\* Stable insertion of position p of df into the sorted list of positions
RECURSIVE InsertPos(_, _, _, _)
InsertPos(sorted, p, df, by) ==
    IF sorted = <<>> THEN <<p>>
    ELSE LET last == sorted[Len(sorted)]
         IN  IF RowLess(df.rows[p], df.rows[last], by, 1)
             THEN Append(InsertPos(SubSeq(sorted, 1, Len(sorted) - 1), p, df, by), last)
             ELSE Append(sorted, p)

RECURSIVE SortedPositions(_, _, _)
SortedPositions(df, by, n) ==
    IF n = 0 THEN <<>>
    ELSE InsertPos(SortedPositions(df, by, n - 1), n, df, by)

\* Faulty variant of sort_values: the rows stay in the order they have
sort_values_unsorted(df, by) == df

\* df.sort_values(by=by): a new table, rows in ascending order of the
\* columns by, every row keeping its label
sort_values(df, by) ==
    LET perm == SortedPositions(df, by, Len(df.rows))
    IN  [columns |-> df.columns,
         index   |-> [k \in 1..Len(perm) |-> df.index[perm[k]]],
         rows    |-> [k \in 1..Len(perm) |-> df.rows[perm[k]]]]

\* df[column].isna().sum()
NullCount(df, column) ==
    Cardinality({i \in 1..Len(df.rows) : df.rows[i][column] = Null})

---------------------------------------------------------------------------
(* pd.testing.assert_frame_equal and DataFrame.merge *)

\* rtol=1e-5, as the denominator of the fraction 1/100000
RtolDenominator == 100000

\* Two numbers are close: |a - b| <= rtol * max(|a|, |b|).  The absolute
\* tolerance (1e-8) never decides for integers.
IsClose(a, b) == Abs(a - b) * RtolDenominator <= Max(Abs(a), Abs(b))

\* Comparison of two cells of column c with check_exact=False: NaN matches
\* only NaN, numbers match within the tolerance, strings when equal
ValuesMatch(c, a, b) ==
    IF a = Null \/ b = Null THEN a = b
    ELSE IF c \in NumericColumns THEN IsClose(a, b)
    ELSE a = b

\* assert_frame_equal(left, right, check_dtype=False, check_exact=False,
\* rtol=1e-5) does not raise
FrameEqual(left, right) ==
    /\ left.columns = right.columns
    /\ Len(left.rows) = Len(right.rows)
    /\ left.index = right.index
    /\ \A i \in 1..Len(left.rows) : \A c \in Range(left.columns) :
          ValuesMatch(c, left.rows[i][c], right.rows[i][c])

\* The columns both tables have, in the order of left: the join keys
CommonColumns(left, right) ==
    LET keep == [k \in 1..Len(left.columns) |-> left.columns[k] \in Range(right.columns)]
        pos == Selected(keep, Len(left.columns))
    IN  [k \in 1..Len(pos) |-> left.columns[pos[k]]]

\* The columns of the merged table: those of left, then the others of right
MergedColumns(left, right) ==
    LET keep == [k \in 1..Len(right.columns) |-> right.columns[k] \notin Range(left.columns)]
        pos == Selected(keep, Len(right.columns))
    IN  left.columns \o [k \in 1..Len(pos) |-> right.columns[pos[k]]]

KeysEqual(r1, r2, on) == \A c \in Range(on) : r1[c] = r2[c]

\* One row of the merged table, from a left row, a right row, or both
MergedRow(cols, lrow, hasL, rrow, hasR, ind) ==
    [c \in Range(cols) \cup {"_merge"} |->
        IF c = "_merge" THEN ind
        ELSE IF hasL /\ c \in DOMAIN lrow THEN lrow[c]
        ELSE IF hasR /\ c \in DOMAIN rrow THEN rrow[c]
        ELSE Null]

\* The merged rows a left row i gives: one per right row with equal keys
\* ("both"), or one "left_only" row when there is none
RECURSIVE LeftMatches(_, _, _, _, _)
LeftMatches(left, right, on, i, j) ==
    IF j > Len(right.rows) THEN <<>>
    ELSE (IF KeysEqual(left.rows[i], right.rows[j], on)
          THEN <<MergedRow(MergedColumns(left, right), left.rows[i], TRUE,
                           right.rows[j], TRUE, "both")>>
          ELSE <<>>) \o LeftMatches(left, right, on, i, j + 1)

RECURSIVE LeftPart(_, _, _, _)
LeftPart(left, right, on, i) ==
    IF i > Len(left.rows) THEN <<>>
    ELSE LET m == LeftMatches(left, right, on, i, 1)
         IN  (IF m = <<>>
              THEN <<MergedRow(MergedColumns(left, right), left.rows[i], TRUE,
                               left.rows[i], FALSE, "left_only")>>
              ELSE m) \o LeftPart(left, right, on, i + 1)

\* The right rows no left row matches: "right_only"
RECURSIVE RightPart(_, _, _, _)
RightPart(left, right, on, j) ==
    IF j > Len(right.rows) THEN <<>>
    ELSE (IF \E i \in 1..Len(left.rows) : KeysEqual(left.rows[i], right.rows[j], on)
          THEN <<>>
          ELSE <<MergedRow(MergedColumns(left, right), right.rows[j], FALSE,
                           right.rows[j], TRUE, "right_only")>>)
         \o RightPart(left, right, on, j + 1)

\* left.merge(right, how='outer', indicator=True) can be computed: the
\* tables share a column to join on (MergeError otherwise)
MergeComputable(left, right) == CommonColumns(left, right) # <<>>

\* left.merge(right, how='outer', indicator=True): full-row join on the
\* common columns (NaN keys match each other), keys in ascending order
merge(left, right) ==
    LET on == CommonColumns(left, right)
        all == LeftPart(left, right, on, 1) \o RightPart(left, right, on, 1)
    IN  sort_values([columns |-> Append(MergedColumns(left, right), "_merge"),
                     index   |-> RangeIndex(Len(all)),
                     rows    |-> all], on)

\* Faulty variant of MergeSide: left_only and right_only are taken for each other
MergeSide_swapped(merged, ind) ==
    LET other == IF ind = "left_only" THEN "right_only" ELSE "left_only"
        sel == BoolSelect(merged, [i \in 1..Len(merged.rows) |-> merged.rows[i]["_merge"] = other])
        cols == SubSeq(merged.columns, 1, Len(merged.columns) - 1)
    IN  [columns |-> cols,
         index   |-> sel.index,
         rows    |-> [k \in 1..Len(sel.rows) |-> [c \in Range(cols) |-> sel.rows[k][c]]]]

\* merged[merged['_merge'] == ind].drop('_merge', axis=1)
MergeSide(merged, ind) ==
    LET sel == BoolSelect(merged, [i \in 1..Len(merged.rows) |-> merged.rows[i]["_merge"] = ind])
        cols == SubSeq(merged.columns, 1, Len(merged.columns) - 1)
    IN  [columns |-> cols,
         index   |-> sel.index,
         rows    |-> [k \in 1..Len(sel.rows) |-> [c \in Range(cols) |-> sel.rows[k][c]]]]

---------------------------------------------------------------------------
(* DataQualityLibrary: every check as the outcome it produces.  The field  *)
(* exc is the exception the call raises ("None": the check passes); the    *)
(* other fields are the parts of the error message.                        *)

\* Python truthiness of the column_names argument: None and [] are both
\* false, and both are written <<>> here
Truthy(column_names) == column_names # <<>>

\* T - max_display if T > max_display else 0
MoreRows(total, max_display) ==
    IF total > max_display THEN total - max_display ELSE 0

\* The rows check_duplicates selects; a name that is no column of df makes
\* DataFrame.duplicated raise KeyError
DuplicateRows(df, column_names) ==
    IF Truthy(column_names)
    THEN BoolSelect(df, duplicated(df, Range(column_names)))
    ELSE BoolSelect(df, duplicated(df, Range(df.columns)))

check_duplicates(df, column_names, max_display) ==
    IF Truthy(column_names) /\ ~(Range(column_names) \subseteq Range(df.columns))
    THEN [op |-> "check_duplicates", exc |-> "KeyError"]
    ELSE LET duplicates == DuplicateRows(df, column_names)
             more_rows == MoreRows(len(duplicates), max_display)
         IN  IF len(duplicates) > 0
             THEN [op |-> "check_duplicates", exc |-> "AssertionError",
                   total |-> len(duplicates),
                   first |-> Min(len(duplicates), max_display),
                   sample |-> head(duplicates, max_display),
                   more_note |-> more_rows > 0,
                   more |-> more_rows]
             ELSE [op |-> "check_duplicates", exc |-> "None"]

\* Faulty variant of check_count: the difference is reported with its sign
check_count_signed(source, target) ==
    IF len(source) = len(target)
    THEN [op |-> "check_count", exc |-> "None"]
    ELSE [op |-> "check_count", exc |-> "AssertionError",
          source_count |-> len(source), target_count |-> len(target),
          difference |-> len(source) - len(target)]

check_count(source, target) ==
    LET source_count == len(source)
        target_count == len(target)
    IN  IF source_count = target_count
        THEN [op |-> "check_count", exc |-> "None"]
        ELSE [op |-> "check_count", exc |-> "AssertionError",
              source_count |-> source_count, target_count |-> target_count,
              difference |-> Abs(source_count - target_count)]

check_dataset_is_not_empty(df) ==
    IF empty(df)
    THEN [op |-> "check_dataset_is_not_empty", exc |-> "AssertionError",
          msg |-> "Dataset is empty. Expected at least one row."]
    ELSE IF ~(Len(df.columns) > 0)
    THEN [op |-> "check_dataset_is_not_empty", exc |-> "AssertionError",
          msg |-> "Dataset has no columns."]
    ELSE [op |-> "check_dataset_is_not_empty", exc |-> "None"]

\* The loop of check_not_null_values from position k on, null_columns being
\* the list collected so far
RECURSIVE NotNullLoop(_, _, _, _)
NotNullLoop(df, column_names, k, null_columns) ==
    IF k > Len(column_names)
    THEN IF Len(null_columns) = 0
         THEN [op |-> "check_not_null_values", exc |-> "None"]
         ELSE [op |-> "check_not_null_values", exc |-> "AssertionError",
               null_columns |-> null_columns]
    ELSE LET column == column_names[k]
         IN  IF column \notin Range(df.columns)
             THEN [op |-> "check_not_null_values", exc |-> "ValueError",
                   column |-> column]
             ELSE LET null_count == NullCount(df, column)
                  IN  NotNullLoop(df, column_names, k + 1,
                                  IF null_count > 0
                                  THEN Append(null_columns, <<column, null_count>>)
                                  ELSE null_columns)

\* Faulty variant of check_not_null_values: the assertion is made inside the loop,
\* at the first column that has nulls
RECURSIVE NotNullEager(_, _, _)
NotNullEager(df, column_names, k) ==
    IF k > Len(column_names)
    THEN [op |-> "check_not_null_values", exc |-> "None"]
    ELSE IF column_names[k] \notin Range(df.columns)
    THEN [op |-> "check_not_null_values", exc |-> "ValueError", column |-> column_names[k]]
    ELSE IF NullCount(df, column_names[k]) > 0
    THEN [op |-> "check_not_null_values", exc |-> "AssertionError",
          null_columns |-> <<<<column_names[k], NullCount(df, column_names[k])>>>>]
    ELSE NotNullEager(df, column_names, k + 1)

check_not_null_values_eager(df, column_names) == NotNullEager(df, column_names, 1)

check_not_null_values(df, column_names) == NotNullLoop(df, column_names, 1, <<>>)

\* The two tables check_data_completeness compares: index reset, rows
\* sorted by all columns, index reset again
Normalized(df) ==
    LET df_reset == reset_index(df)
    IN  reset_index(sort_values(df_reset, df_reset.columns))

\* The table on which df.reset_index(drop=True, inplace=inplace) was called,
\* after the call: pandas changes it only with inplace=True, and returns a
\* new table otherwise (the default)
reset_index_receiver(df, inplace) == IF inplace THEN reset_index(df) ELSE df

\* The same for df.sort_values(by=by, inplace=inplace)
sort_values_receiver(df, by, inplace) == IF inplace THEN sort_values(df, by) ELSE df

\* Faulty variant of completeness_argument: index reset and rows sorted in place
completeness_argument_in_place(df) ==
    LET df_reset == reset_index_receiver(df, TRUE)
    IN  reset_index_receiver(sort_values_receiver(df_reset, df_reset.columns, TRUE), TRUE)

\* A table passed to check_data_completeness, after the call: the call
\* made on it is reset_index(drop=True), without inplace; sort_values and
\* the second reset_index are called on the new tables, and so is merge
completeness_argument(df) == reset_index_receiver(df, FALSE)

\* A table passed to check_duplicates, check_count, check_not_null_values or
\* check_dataset_is_not_empty, after the call: these read it (duplicated,
\* df[mask], len, empty, columns, df[column].isna()) and assign nothing
read_argument(df) == df

\* "Unable to perform detailed comparison" and the list of possible causes
\* are in the message (causes) exactly when the merge raised; the row
\* counts and their difference are in it in both cases.
check_data_completeness(source, target, max_display) ==
    LET source_df_sorted == Normalized(source)
        target_df_sorted == Normalized(target)
    IN  IF FrameEqual(source_df_sorted, target_df_sorted)
        THEN [op |-> "check_data_completeness", exc |-> "None"]
        ELSE IF MergeComputable(source_df_sorted, target_df_sorted)
        THEN LET merged == merge(source_df_sorted, target_df_sorted)
                 missing_in_target == MergeSide(merged, "left_only")
                 extra_in_target == MergeSide(merged, "right_only")
             IN  [op |-> "check_data_completeness", exc |-> "AssertionError",
                  source_count |-> len(source_df_sorted),
                  target_count |-> len(target_df_sorted),
                  difference |-> Abs(len(source_df_sorted) - len(target_df_sorted)),
                  detailed |-> TRUE,
                  causes |-> FALSE,
                  missing_total |-> len(missing_in_target),
                  missing_sample |-> IF len(missing_in_target) > 0
                                     THEN head(missing_in_target, max_display).rows
                                     ELSE <<>>,
                  missing_more |-> IF len(missing_in_target) > 0
                                   THEN MoreRows(len(missing_in_target), max_display)
                                   ELSE 0,
                  extra_total |-> len(extra_in_target),
                  extra_sample |-> IF len(extra_in_target) > 0
                                   THEN head(extra_in_target, max_display).rows
                                   ELSE <<>>,
                  extra_more |-> IF len(extra_in_target) > 0
                                 THEN MoreRows(len(extra_in_target), max_display)
                                 ELSE 0]
        ELSE [op |-> "check_data_completeness", exc |-> "AssertionError",
              source_count |-> len(source_df_sorted),
              target_count |-> len(target_df_sorted),
              difference |-> Abs(len(source_df_sorted) - len(target_df_sorted)),
              detailed |-> FALSE,
              causes |-> TRUE,
              missing_total |-> 0, missing_sample |-> <<>>, missing_more |-> 0,
              extra_total |-> 0, extra_sample |-> <<>>, extra_more |-> 0]

---------------------------------------------------------------------------
(* ParquetReader.process *)

\* What the file system and pd.read_parquet answer for a path:
\*   exists : os.path.exists(path)
\*   kind   : "file" (os.path.isfile), "dir" (os.path.isdir) or "other"
\*   read   : "ok" or "error" (pd.read_parquet raises)
PathStates == [exists : BOOLEAN, kind : {"file", "dir", "other"}, read : {"ok", "error"}]

\* process(path, include_subfolders), df being what pd.read_parquet returns.
\* Every exception raised inside the try block, the two ValueErrors
\* included, is caught by `except Exception` and raised again as Exception.
process(path, include_subfolders, df) ==
    IF ~path.exists
    THEN [op |-> "process", exc |-> "FileNotFoundError",
          context |-> "Path does not exist", cause |-> "None", read_calls |-> 0]
    ELSE IF ~include_subfolders /\ path.kind = "other"
    THEN [op |-> "process", exc |-> "Exception",
          context |-> "Failed to read Parquet file(s)",
          cause |-> "ValueError: Invalid path", read_calls |-> 0]
    ELSE IF path.read = "error"
    THEN [op |-> "process", exc |-> "Exception",
          context |-> "Failed to read Parquet file(s)",
          cause |-> "read_parquet error", read_calls |-> 1]
    ELSE IF empty(df)
    THEN [op |-> "process", exc |-> "Exception",
          context |-> "Failed to read Parquet file(s)",
          cause |-> "ValueError: No data found", read_calls |-> 1]
    ELSE [op |-> "process", exc |-> "None",
          context |-> "None", cause |-> "None", read_calls |-> 1, value |-> df]

---------------------------------------------------------------------------
(* Actions of SpecTable and SpecPair: one library or reader call on the   *)
(* tables drawn by Init, as in the test module, where every test function *)
(* makes one call on the fixture tables                                    *)

\* result before any call: args are the arguments of the call, out its outcome
NoCall == [args |-> <<>>, out |-> [op |-> "none", exc |-> "None"]]

\* The names a column_names argument is made of
ColumnNames == {"facility_name", "min_time_spent", "unknown_column"}

Call_check_duplicates ==
    /\ result = NoCall
    /\ \E column_names \in SeqsUpTo(ColumnNames, MaxNames), max_display \in 0..MaxDisplay :
          result' = [args |-> [column_names |-> column_names, max_display |-> max_display],
                     out  |-> check_duplicates(target_df, column_names, max_display)]
    /\ UNCHANGED <<source_df, target_df, sessionVars>>

\* check_duplicates(df, max_display=n): column_names left at its default
Call_check_duplicates_all_columns ==
    /\ result = NoCall
    /\ \E max_display \in 0..MaxDisplay :
          result' = [args |-> [column_names |-> <<>>, max_display |-> max_display],
                     out  |-> check_duplicates(target_df, <<>>, max_display)]
    /\ UNCHANGED <<source_df, target_df, sessionVars>>

Call_check_not_null_values ==
    /\ result = NoCall
    /\ \E column_names \in SeqsUpTo(ColumnNames, MaxNames) :
          result' = [args |-> [column_names |-> column_names],
                     out  |-> check_not_null_values(target_df, column_names)]
    /\ UNCHANGED <<source_df, target_df, sessionVars>>

Call_check_dataset_is_not_empty ==
    /\ result = NoCall
    /\ result' = [args |-> <<>>, out |-> check_dataset_is_not_empty(target_df)]
    /\ UNCHANGED <<source_df, target_df, sessionVars>>

\* process on a path whose files hold the rows of target_df
Call_process ==
    /\ result = NoCall
    /\ \E path \in PathStates, include_subfolders \in BOOLEAN :
          result' = [args |-> [path |-> path, include_subfolders |-> include_subfolders],
                     out  |-> process(path, include_subfolders, target_df)]
    /\ UNCHANGED <<source_df, target_df, sessionVars>>

Call_check_count ==
    /\ result = NoCall
    /\ result' = [args |-> <<>>, out |-> check_count(source_df, target_df)]
    /\ UNCHANGED <<source_df, target_df, sessionVars>>

Call_check_data_completeness ==
    /\ result = NoCall
    /\ \E max_display \in 0..MaxDisplay :
          result' = [args |-> [max_display |-> max_display],
                     out  |-> check_data_completeness(source_df, target_df, max_display)]
    /\ UNCHANGED <<source_df, target_df, sessionVars>>

---------------------------------------------------------------------------
(* Actions of SpecFrame: the calls the test functions of the module make   *)
(* on the shared tables of source_data and target_data, in any order and   *)
(* any number; every call leaves in the fixture what it left of its        *)
(* arguments                                                               *)

test_check_target_dataset_is_not_empty ==
    /\ result' = [args |-> [test |-> "test_check_target_dataset_is_not_empty"],
                  out  |-> check_dataset_is_not_empty(target_df)]
    /\ target_df' = read_argument(target_df)
    /\ UNCHANGED <<source_df, sessionVars>>

test_check_source_dataset_is_not_empty ==
    /\ result' = [args |-> [test |-> "test_check_source_dataset_is_not_empty"],
                  out  |-> check_dataset_is_not_empty(source_df)]
    /\ source_df' = read_argument(source_df)
    /\ UNCHANGED <<target_df, sessionVars>>

test_check_row_count ==
    /\ result' = [args |-> [test |-> "test_check_row_count"],
                  out  |-> check_count(source_df, target_df)]
    /\ source_df' = read_argument(source_df)
    /\ target_df' = read_argument(target_df)
    /\ UNCHANGED sessionVars

test_check_data_completeness ==
    /\ result' = [args |-> [test |-> "test_check_data_completeness"],
                  out  |-> check_data_completeness(source_df, target_df, MaxDisplay)]
    /\ source_df' = completeness_argument(source_df)
    /\ target_df' = completeness_argument(target_df)
    /\ UNCHANGED sessionVars

\* column_names: the key columns of the dataset the model has
test_check_no_duplicates_in_target ==
    /\ result' = [args |-> [test |-> "test_check_no_duplicates_in_target"],
                  out  |-> check_duplicates(target_df, <<"facility_name">>, MaxDisplay)]
    /\ target_df' = read_argument(target_df)
    /\ UNCHANGED <<source_df, sessionVars>>

test_check_not_null_values_in_target ==
    /\ result' = [args |-> [test |-> "test_check_not_null_values_in_target"],
                  out  |-> check_not_null_values(target_df,
                                                <<"facility_name", "min_time_spent">>)]
    /\ target_df' = read_argument(target_df)
    /\ UNCHANGED <<source_df, sessionVars>>

---------------------------------------------------------------------------
(* PostgresConnectorContextManager.  connection and cursor are "None"      *)
(* (the attribute is None), "open" or "closed"; a closed psycopg2 object   *)
(* is still a true value.                                                  *)

\* __init__
NewConnector == [connection |-> "None", cursor |-> "None"]

\* __enter__: outcome is what psycopg2 does: "ok", "connect_error"
\* (psycopg2.connect raises psycopg2.Error) or "cursor_error"
\* (connection.cursor() raises psycopg2.Error)
EnterOutcomes == {"ok", "connect_error", "cursor_error"}

\* Faulty variant of enter: a failed connect is tried a second time
enter_retry(self, outcome) ==
    IF outcome = "connect_error"
    THEN [self |-> self, exc |-> "Exception",
          context |-> "Failed to connect to database", connect_calls |-> 2]
    ELSE IF outcome = "cursor_error"
    THEN [self |-> [self EXCEPT !.connection = "open"], exc |-> "Exception",
          context |-> "Failed to connect to database", connect_calls |-> 1]
    ELSE [self |-> [connection |-> "open", cursor |-> "open"], exc |-> "None",
          context |-> "None", connect_calls |-> 1]

enter(self, outcome) ==
    IF outcome = "connect_error"
    THEN [self |-> self, exc |-> "Exception",
          context |-> "Failed to connect to database", connect_calls |-> 1]
    ELSE IF outcome = "cursor_error"
    THEN [self |-> [self EXCEPT !.connection = "open"], exc |-> "Exception",
          context |-> "Failed to connect to database", connect_calls |-> 1]
    ELSE [self |-> [connection |-> "open", cursor |-> "open"], exc |-> "None",
          context |-> "None", connect_calls |-> 1]

\* Faulty variant of exit: only the cursor is closed
exit_cursor_only(self, exc_type, log) ==
    IF self.cursor # "None"
    THEN [self |-> [self EXCEPT !.cursor = "closed"], log |-> Append(log, "cursor")]
    ELSE [self |-> self, log |-> log]

\* __exit__(exc_type, exc_value, exc_tb): closes the cursor if there is one,
\* then the connection if there is one, whatever exc_type is; log is the
\* list of close() calls made so far.  It returns None: an exception
\* raised in the block is not suppressed.
exit(self, exc_type, log) ==
    LET log1 == IF self.cursor # "None" THEN Append(log, "cursor") ELSE log
        self1 == IF self.cursor # "None" THEN [self EXCEPT !.cursor = "closed"] ELSE self
        log2 == IF self1.connection # "None" THEN Append(log1, "connection") ELSE log1
        self2 == IF self1.connection # "None"
                 THEN [self1 EXCEPT !.connection = "closed"] ELSE self1
    IN  [self |-> self2, log |-> log2]

\* get_data_sql(query): outcome is what pd.read_sql_query does on an open
\* connection, "ok" or "error"; on a closed connection it raises
get_data_sql(self, outcome) ==
    IF self.connection = "None"
    THEN [exc |-> "Exception", context |-> "Database connection is not established",
          query_calls |-> 0]
    ELSE IF outcome = "error" \/ self.connection = "closed"
    THEN [exc |-> "Exception", context |-> "Failed to execute query", query_calls |-> 1]
    ELSE [exc |-> "None", context |-> "None", query_calls |-> 1]

---------------------------------------------------------------------------
(* The pytest session: tests/conftest.py and the test module *)

Fixtures ==
    {"db_connection", "parquet_reader", "data_quality_library",
     "source_data", "target_data"}

\* Faulty variant of Scope: every fixture has the default scope
Scope_function(f) == "function"

\* @pytest.fixture(scope=...)
Scope(f) ==
    IF f \in {"source_data", "target_data"} THEN "module" ELSE "session"

\* The tests of the module, in file order
NumTests == 6
TestIds == 1..NumTests

\* The fixtures a test sets up, in pytest's order: its fixture closure,
\* session scope before module scope
SetupOrder(t) ==
    CASE t = 1 -> <<"data_quality_library", "parquet_reader", "target_data">>
      [] t = 2 -> <<"data_quality_library", "db_connection", "source_data">>
      [] t = 3 -> <<"data_quality_library", "db_connection", "parquet_reader",
                    "source_data", "target_data">>
      [] t = 4 -> <<"data_quality_library", "db_connection", "parquet_reader",
                    "source_data", "target_data">>
      [] t = 5 -> <<"data_quality_library", "parquet_reader", "target_data">>
      [] t = 6 -> <<"data_quality_library", "parquet_reader", "target_data">>

\* Values of a command-line option: not given (None), empty, or given
OptionValues == {"<None>", "", "given"}

\* Faulty variant of required_options: the password is not required
required_options_user_only == <<"db_user">>

\* config.getoption(option) for the options pytest_configure requires
required_options == <<"db_user", "db_password">>

\* `not config.getoption(option)`
NotGiven(cfg, option) == cfg[option] \in {"<None>", ""}

\* pytest_configure: the first required option that is not given makes
\* pytest.fail end the run
ConfigureFails(cfg) ==
    \E k \in 1..Len(required_options) : NotGiven(cfg, required_options[k])

NoTest == [test |-> 0, todo |-> <<>>]

UnsetFixture == [state |-> "unset", value |-> 0, runs |-> 0]

\* The table instances a read can return in the session: no rows, or rows
SessionFrames ==
    {DataFrame(<<"facility_name", "min_time_spent">>, <<>>),
     DataFrame(<<"facility_name", "min_time_spent">>,
               <<[facility_name |-> 1, min_time_spent |-> 100000]>>)}

\* End of a scope: every fixture of these scopes is finalized and its cache
\* entry dropped.  The finalizer of db_connection resumes the generator,
\* which leaves the with-block (exc_type: None, or the exception thrown in
\* at the yield), so __exit__ runs; the other fixtures hold no resource.
Finalize(fx, conn, log, wb, scopes, exc_type) ==
    LET done == {f \in Fixtures : Scope(f) \in scopes /\ fx[f].state \in {"cached", "failed"}}
        leaves == "db_connection" \in done /\ fx["db_connection"].state = "cached"
        ex == exit(conn, exc_type, log)
    IN  [fixtures  |-> [f \in Fixtures |->
                           IF f \in done THEN [fx[f] EXCEPT !.state = "finalized"] ELSE fx[f]],
         connector |-> IF leaves THEN ex.self ELSE conn,
         closeLog  |-> IF leaves THEN ex.log ELSE log,
         withBlock |-> IF ~leaves THEN wb
                       ELSE IF exc_type = "None" THEN "left_normally"
                       ELSE "left_by_exception"]

\* A test has ended (error at setup, passed or failed): pytest tears down
\* the function-scoped fixtures
EndTest(t, outcome, fx, conn, wb) ==
    LET fin == Finalize(fx, conn, closeLog, wb, {"function"}, "None")
    IN  /\ tests' = [tests EXCEPT ![t] =
                        [state |-> outcome,
                         saw |-> IF outcome = "error" THEN tests[t].saw
                                 ELSE [f \in Fixtures |->
                                         IF f \in Range(SetupOrder(t)) THEN fx[f].value ELSE 0],
                         conn_at_call |-> IF outcome = "error" THEN "None"
                                          ELSE conn.connection]]
        /\ fixtures' = fin.fixtures
        /\ connector' = fin.connector
        /\ closeLog' = fin.closeLog
        /\ withBlock' = fin.withBlock
        /\ current' = NoTest

pytest_configure ==
    /\ phase = "configure"
    /\ phase' = IF ConfigureFails(config) THEN "usage_error" ELSE "running"
    /\ UNCHANGED <<dqVars, config, connector, closeLog, withBlock, fixtures, tests,
                   current, attempts, errors>>

Pending == {t \in TestIds : tests[t].state = "pending"}

\* The next selected test starts its setup
StartTest ==
    /\ phase = "running" /\ current.test = 0 /\ Pending # {}
    /\ LET t == CHOOSE x \in Pending : \A y \in Pending : x <= y
       IN  current' = [test |-> t, todo |-> SetupOrder(t)]
    /\ UNCHANGED <<dqVars, config, phase, connector, closeLog, withBlock, fixtures,
                   tests, attempts, errors>>

InSetup(f) ==
    /\ phase = "running" /\ current.test # 0 /\ current.todo # <<>>
    /\ Head(current.todo) = f

\* The fixture function is not run again while its result is cached
Setup_cached ==
    \E f \in Fixtures :
        /\ InSetup(f) /\ fixtures[f].state = "cached"
        /\ current' = [current EXCEPT !.todo = Tail(current.todo)]
        /\ UNCHANGED <<dqVars, config, phase, connector, closeLog, withBlock, fixtures,
                       tests, attempts, errors>>

\* ... nor while its failure is cached: the test ends with the same error
Setup_cached_failure ==
    \E f \in Fixtures :
        /\ InSetup(f) /\ fixtures[f].state = "failed"
        /\ EndTest(current.test, "error", fixtures, connector, withBlock)
        /\ UNCHANGED <<dqVars, config, phase, attempts, errors>>

MustRun(f) == InSetup(f) /\ fixtures[f].state \in {"unset", "finalized"}

Succeeded(f) ==
    [fixtures EXCEPT ![f] = [state |-> "cached", value |-> @.runs + 1, runs |-> @.runs + 1]]
Failed(f) ==
    [fixtures EXCEPT ![f] = [state |-> "failed", value |-> 0, runs |-> @.runs + 1]]

\* parquet_reader and data_quality_library: construct the object, yield it
Setup_object ==
    \E f \in {"parquet_reader", "data_quality_library"} :
        /\ MustRun(f)
        /\ fixtures' = Succeeded(f)
        /\ current' = [current EXCEPT !.todo = Tail(current.todo)]
        /\ UNCHANGED <<dqVars, config, phase, connector, closeLog, withBlock, tests,
                       attempts, errors>>

\* db_connection: int(db_port), then the with-block is entered and the
\* connector yielded; any Exception becomes pytest.fail
Setup_db_connection ==
    /\ MustRun("db_connection")
    /\ \E outcome \in EnterOutcomes :
        IF config.db_port # "5434"
        THEN /\ EndTest(current.test, "error", Failed("db_connection"), connector, withBlock)
             /\ UNCHANGED <<attempts, errors>>
        ELSE LET r == enter(NewConnector, outcome)
             IN  /\ attempts' = [attempts EXCEPT !.connect = @ + r.connect_calls]
                 /\ IF r.exc = "None"
                    THEN /\ fixtures' = Succeeded("db_connection")
                         /\ connector' = r.self
                         /\ withBlock' = "inside"
                         /\ current' = [current EXCEPT !.todo = Tail(current.todo)]
                         /\ UNCHANGED <<tests, closeLog, errors>>
                    ELSE /\ EndTest(current.test, "error", Failed("db_connection"),
                                    r.self, "enter_failed")
                         /\ errors' = errors \cup
                               {[op |-> "connect", exc |-> r.exc, context |-> r.context]}
    /\ UNCHANGED <<dqVars, config, phase>>

\* source_data: db_connection.get_data_sql(source_query)
Setup_source_data ==
    /\ MustRun("source_data")
    /\ \E outcome \in {"ok", "error"} :
        LET r == get_data_sql(connector, outcome)
        IN  /\ attempts' = [attempts EXCEPT !.query = @ + r.query_calls]
            /\ IF r.exc = "None"
               THEN /\ fixtures' = Succeeded("source_data")
                    /\ current' = [current EXCEPT !.todo = Tail(current.todo)]
                    /\ UNCHANGED <<tests, connector, closeLog, withBlock, errors>>
               ELSE /\ EndTest(current.test, "error", Failed("source_data"), connector,
                               withBlock)
                    /\ errors' = errors \cup
                          {[op |-> "query", exc |-> r.exc, context |-> r.context]}
    /\ UNCHANGED <<dqVars, config, phase>>

\* target_data: parquet_reader.process(target_path, include_subfolders=True)
Setup_target_data ==
    /\ MustRun("target_data")
    /\ \E path \in PathStates, df \in SessionFrames :
        LET r == process(path, TRUE, df)
        IN  /\ attempts' = [attempts EXCEPT !.read = @ + r.read_calls]
            /\ IF r.exc = "None"
               THEN /\ fixtures' = Succeeded("target_data")
                    /\ current' = [current EXCEPT !.todo = Tail(current.todo)]
                    /\ UNCHANGED <<tests, connector, closeLog, withBlock, errors>>
               ELSE /\ EndTest(current.test, "error", Failed("target_data"), connector,
                               withBlock)
                    /\ errors' = errors \cup
                          {[op |-> "read", exc |-> r.exc, context |-> r.context]}
    /\ UNCHANGED <<dqVars, config, phase>>

\* Every fixture of the test is set up: the test body runs its check, which
\* passes or raises AssertionError
CallTest ==
    /\ phase = "running" /\ current.test # 0 /\ current.todo = <<>>
    /\ \E outcome \in {"passed", "failed"} :
          EndTest(current.test, outcome, fixtures, connector, withBlock)
    /\ UNCHANGED <<dqVars, config, phase, attempts, errors>>

\* After the last test: the module-scoped fixtures are finalized, then the
\* session-scoped ones
pytest_sessionfinish ==
    /\ phase = "running" /\ current.test = 0 /\ Pending = {}
    /\ \E exc_type \in {"None", "GeneratorExit"} :
        LET m == Finalize(fixtures, connector, closeLog, withBlock, {"module"}, exc_type)
            fin == Finalize(m.fixtures, m.connector, m.closeLog, m.withBlock,
                            {"session"}, exc_type)
        IN  /\ fixtures' = fin.fixtures
            /\ connector' = fin.connector
            /\ closeLog' = fin.closeLog
            /\ withBlock' = fin.withBlock
            /\ phase' = "finished"
    /\ UNCHANGED <<dqVars, config, tests, current, attempts, errors>>

---------------------------------------------------------------------------
(* A caller of PostgresConnectorContextManager: with-statements on one     *)
(* connector object and calls of get_data_sql at any point of its life     *)

\* with connector: ... evaluates connector.__enter__()
with_enter ==
    /\ withBlock # "inside"
    /\ attempts.connect < MaxBlocks
    /\ \E outcome \in EnterOutcomes :
        LET r == enter(connector, outcome)
        IN  /\ connector' = r.self
            /\ withBlock' = IF r.exc = "None" THEN "inside" ELSE "enter_failed"
            /\ attempts' = [attempts EXCEPT !.connect = @ + r.connect_calls]
    /\ UNCHANGED <<dqVars, config, phase, closeLog, fixtures, tests, current, errors>>

\* The with-block is left, normally or by an exception raised in it:
\* connector.__exit__(exc_type, exc_value, exc_tb)
with_exit ==
    /\ withBlock = "inside"
    /\ \E exc_type \in {"None", "Exception"} :
        LET r == exit(connector, exc_type, closeLog)
        IN  /\ connector' = r.self
            /\ closeLog' = r.log
            /\ withBlock' = IF exc_type = "None" THEN "left_normally"
                            ELSE "left_by_exception"
    /\ UNCHANGED <<dqVars, config, phase, fixtures, tests, current, attempts, errors>>

\* connector.get_data_sql(query), inside or outside a with-block
Call_get_data_sql ==
    /\ attempts.query < MaxQueries
    /\ \E outcome \in {"ok", "error"} :
        LET r == get_data_sql(connector, outcome)
        IN  /\ result' = [args |-> [withBlock |-> withBlock,
                                    connection |-> connector.connection],
                          out  |-> [op |-> "get_data_sql", exc |-> r.exc,
                                    context |-> r.context,
                                    query_calls |-> r.query_calls]]
            /\ attempts' = [attempts EXCEPT !.query = @ + r.query_calls]
    /\ UNCHANGED <<source_df, target_df, config, phase, connector, closeLog,
                   withBlock, fixtures, tests, current, errors>>

---------------------------------------------------------------------------
(* Specifications *)

\* No session is running in SpecTable and SpecPair
SessionIdle ==
    /\ config = [db_user |-> "given", db_password |-> "given", db_port |-> "5434"]
    /\ phase = "configure"
    /\ connector = NewConnector
    /\ closeLog = <<>>
    /\ withBlock = "not_entered"
    /\ fixtures = [f \in Fixtures |-> UnsetFixture]
    /\ tests = [t \in TestIds |->
                  [state |-> "deselected", saw |-> [f \in Fixtures |-> 0],
                   conn_at_call |-> "None"]]
    /\ current = NoTest
    /\ attempts = [connect |-> 0, query |-> 0, read |-> 0]
    /\ errors = {}

\* The session before pytest_configure: any options, any selection of the
\* tests of the module (-m, -k)
Init ==
    /\ source_df = EmptyFrame
    /\ target_df = EmptyFrame
    /\ result = NoCall
    /\ config \in [db_user : OptionValues, db_password : OptionValues,
                   db_port : {"5434", "not a number"}]
    /\ phase = "configure"
    /\ connector = NewConnector
    /\ closeLog = <<>>
    /\ withBlock = "not_entered"
    /\ fixtures = [f \in Fixtures |-> UnsetFixture]
    /\ \E selected \in SUBSET TestIds :
          tests = [t \in TestIds |->
                     [state |-> IF t \in selected THEN "pending" ELSE "deselected",
                      saw |-> [f \in Fixtures |-> 0],
                      conn_at_call |-> "None"]]
    /\ current = NoTest
    /\ attempts = [connect |-> 0, query |-> 0, read |-> 0]
    /\ errors = {}

Next ==
    \/ pytest_configure
    \/ StartTest
    \/ Setup_cached
    \/ Setup_cached_failure
    \/ Setup_object
    \/ Setup_db_connection
    \/ Setup_source_data
    \/ Setup_target_data
    \/ CallTest
    \/ pytest_sessionfinish

Spec == Init /\ [][Next]_vars

\* One connector object in the hands of a caller
InitConnector ==
    /\ source_df = EmptyFrame
    /\ target_df = EmptyFrame
    /\ result = NoCall
    /\ SessionIdle

NextConnector ==
    \/ with_enter
    \/ with_exit
    \/ Call_get_data_sql

SpecConnector == InitConnector /\ [][NextConnector]_vars

\* One table, any of the single-table checks or the reader
InitTable ==
    /\ source_df = EmptyFrame
    /\ target_df \in Tables(MaxRows)
    /\ result = NoCall
    /\ SessionIdle

NextTable ==
    \/ Call_check_duplicates
    \/ Call_check_not_null_values
    \/ Call_check_dataset_is_not_empty
    \/ Call_process

SpecTable == InitTable /\ [][NextTable]_vars

\* Source and target, the two-table checks
InitPair ==
    /\ source_df \in Tables(MaxPairRows)
    /\ target_df \in Tables(MaxPairRows)
    /\ result = NoCall
    /\ SessionIdle

NextPair ==
    \/ Call_check_count
    \/ Call_check_data_completeness

SpecPair == InitPair /\ [][NextPair]_vars

\* The two checks whose messages show a sample of rows
NextReport ==
    \/ Call_check_duplicates_all_columns
    \/ Call_check_data_completeness

SpecReport == InitPair /\ [][NextReport]_vars

\* The tests of the module on the shared fixture tables
NextFrame ==
    \/ test_check_target_dataset_is_not_empty
    \/ test_check_source_dataset_is_not_empty
    \/ test_check_row_count
    \/ test_check_data_completeness
    \/ test_check_no_duplicates_in_target
    \/ test_check_not_null_values_in_target

SpecFrame == InitPair /\ [][NextFrame]_vars

---------------------------------------------------------------------------
(* Properties of the session (Spec) *)

Ran(t) == tests[t].state \in {"passed", "failed"}
Uses(t, f) == f \in Range(SetupOrder(t))

\* C1: once the with-block of PostgresConnectorContextManager has been
\* entered and is then left, normally or by an exception, the cursor has
\* been closed first and the connection after it, and the connection is
\* not open any more.
C1_ClosedOnBlockExit ==
    withBlock \in {"left_normally", "left_by_exception"} =>
        /\ closeLog = <<"cursor", "connection">>
        /\ connector.cursor = "closed"
        /\ connector.connection = "closed"

\* C1 witness: the block was entered, tests ran, and it was left by an exception
C1_Witness ==
    /\ withBlock = "left_by_exception"
    /\ connector.connection = "closed"
    /\ \E t \in TestIds : Ran(t) /\ Uses(t, "db_connection")

\* C8: if --db_user or --db_password is absent the run fails in
\* pytest_configure: no fixture is set up, no connection attempted, no file
\* read, no test body run.
C8_FailFastOnMissingOption ==
    (config.db_user = "<None>" \/ config.db_password = "<None>") =>
        /\ phase \in {"configure", "usage_error"}
        /\ \A f \in Fixtures : fixtures[f] = UnsetFixture
        /\ attempts = [connect |-> 0, query |-> 0, read |-> 0]
        /\ connector = NewConnector
        /\ current = NoTest
        /\ \A t \in TestIds : ~Ran(t) /\ tests[t].state # "error"

\* C8 witness: the password alone is absent, tests are selected, the run failed
C8_Witness ==
    /\ phase = "usage_error"
    /\ config.db_user = "given" /\ config.db_password = "<None>"
    /\ \A t \in TestIds : tests[t].state = "pending"

\* C9: in one session the connection is opened at most once, the source
\* query and the Parquet read are executed at most once, all tests see the
\* same instances, and the connection is closed only after the last test
\* that uses it.
C9_FixturesComputedOnce ==
    /\ attempts.connect <= 1 /\ attempts.query <= 1 /\ attempts.read <= 1
    /\ \A f \in Fixtures : fixtures[f].runs <= 1
    /\ \A t1, t2 \in TestIds : \A f \in Fixtures :
          (Ran(t1) /\ Ran(t2) /\ Uses(t1, f) /\ Uses(t2, f)) =>
              tests[t1].saw[f] = tests[t2].saw[f]
    /\ \A t \in TestIds : (Ran(t) /\ Uses(t, "db_connection")) =>
          tests[t].conn_at_call = "open"
    /\ connector.connection = "closed" =>
          /\ current = NoTest
          /\ \A t \in TestIds : tests[t].state # "pending"

\* C9 witness: all six tests ran on the one connection and the one pair of
\* tables, and the connection is closed
C9_Witness ==
    /\ phase = "finished"
    /\ \A t \in TestIds : Ran(t)
    /\ attempts = [connect |-> 1, query |-> 1, read |-> 1]
    /\ connector.connection = "closed"

---------------------------------------------------------------------------
(* Properties of the single-table checks and the reader (SpecTable) *)

Called(op) == result.out.op = op

\* Positions of the rows of df that agree with another row on the columns keys
DuplicatedPositions(df, keys) ==
    {i \in 1..Len(df.rows) :
        \E j \in 1..Len(df.rows) : j # i /\ \A c \in keys : df.rows[i][c] = df.rows[j][c]}

\* C3: check_duplicates fails iff at least two rows agree on all the given
\* columns (all columns when none are given), and the reported duplicates
\* are all occurrences of every duplicated key.
C3_DuplicatesAllOccurrences ==
    (Called("check_duplicates")
        /\ Range(result.args.column_names) \subseteq Range(target_df.columns)) =>
        LET keys == IF result.args.column_names = <<>> THEN Range(target_df.columns)
                    ELSE Range(result.args.column_names)
            dups == DuplicatedPositions(target_df, keys)
        IN  /\ result.out.exc \in {"None", "AssertionError"}
            /\ result.out.exc = "AssertionError" <=>
                  \E i, j \in 1..Len(target_df.rows) :
                      i # j /\ \A c \in keys : target_df.rows[i][c] = target_df.rows[j][c]
            /\ result.out.exc = "AssertionError" =>
                  /\ result.out.total = Cardinality(dups)
                  /\ result.out.total >= 2
                  /\ Range(result.out.sample.index) \subseteq {i - 1 : i \in dups}
                  /\ result.args.max_display >= result.out.total =>
                        Range(result.out.sample.index) = {i - 1 : i \in dups}

\* C3 witness: two rows equal on facility_name only, both reported
C3_Witness ==
    /\ Called("check_duplicates")
    /\ result.args.column_names = <<"facility_name">>
    /\ Len(target_df.rows) = 2
    /\ target_df.rows[1] # target_df.rows[2]
    /\ result.out.exc = "AssertionError"
    /\ result.out.total = 2
    /\ Len(result.out.sample.rows) = 2

\* C4: check_not_null_values raises ValueError whenever a named column is
\* absent, wherever it is in the list and whatever nulls the other columns
\* have; otherwise AssertionError iff a named column has a null, listing
\* exactly the columns with nulls and their null counts.
C4_NotNullErrors ==
    Called("check_not_null_values") =>
        LET names == Range(result.args.column_names)
            withNulls == {c \in names : \E i \in 1..Len(target_df.rows) :
                                            target_df.rows[i][c] = Null}
        IN  IF ~(names \subseteq Range(target_df.columns))
            THEN result.out.exc = "ValueError"
            ELSE /\ result.out.exc = (IF withNulls = {} THEN "None" ELSE "AssertionError")
                 /\ result.out.exc = "AssertionError" =>
                       Range(result.out.null_columns) =
                          {<<c, Cardinality({i \in 1..Len(target_df.rows) :
                                                target_df.rows[i][c] = Null})>> :
                             c \in withNulls}

\* C4 witness: a column with nulls is named before an absent column
C4_Witness ==
    /\ Called("check_not_null_values")
    /\ result.args.column_names = <<"min_time_spent", "unknown_column">>
    /\ "min_time_spent" \in Range(target_df.columns)
    /\ \E i \in 1..Len(target_df.rows) : target_df.rows[i]["min_time_spent"] = Null
    /\ result.out.exc = "ValueError"

\* C6: check_dataset_is_not_empty raises AssertionError for every table
\* with zero rows or zero columns and passes for every other table.
C6_NotEmptyCheck ==
    Called("check_dataset_is_not_empty") =>
        result.out.exc =
            (IF Len(target_df.rows) = 0 \/ Len(target_df.columns) = 0
             THEN "AssertionError" ELSE "None")

\* C6 witness: a table with columns and no rows fails the check
C6_Witness ==
    /\ Called("check_dataset_is_not_empty")
    /\ Len(target_df.rows) = 0 /\ Len(target_df.columns) = 2
    /\ result.out.exc = "AssertionError"

\* C7, as claimed: process raises FileNotFoundError for a missing path,
\* ValueError when the files yield zero rows, and returns only tables with
\* at least one row.
C7_ProcessRaisesValueError ==
    Called("process") =>
        /\ ~result.args.path.exists => result.out.exc = "FileNotFoundError"
        /\ (result.args.path.exists
              /\ (result.args.include_subfolders \/ result.args.path.kind # "other")
              /\ result.args.path.read = "ok"
              /\ Len(target_df.rows) = 0) => result.out.exc = "ValueError"
        /\ result.out.exc = "None" => Len(result.out.value.rows) >= 1

---------------------------------------------------------------------------
(* Properties of the two-table checks (SpecPair) *)

Occurrences(rows, r) == Cardinality({i \in 1..Len(rows) : rows[i] = r})

\* The two tables hold the same multiset of rows
IsPermutation(a, b) ==
    \A r \in Range(a.rows) \cup Range(b.rows) : Occurrences(a.rows, r) = Occurrences(b.rows, r)

\* Row r differs from every row of table df
DiffersFromAll(r, df) == \A i \in 1..Len(df.rows) : df.rows[i] # r

\* Row r matches no row of df within the tolerance of the comparison
MatchesNone(r, df) ==
    \A i \in 1..Len(df.rows) :
        \E c \in Range(df.columns) : ~ValuesMatch(c, r[c], df.rows[i][c])

C5_CountEquality ==
    Called("check_count") =>
        /\ result.out.exc = (IF Len(source_df.rows) = Len(target_df.rows)
                             THEN "None" ELSE "AssertionError")
        /\ result.out.exc = "AssertionError" =>
              /\ result.out.difference > 0
              /\ \/ Len(source_df.rows) + result.out.difference = Len(target_df.rows)
                 \/ Len(target_df.rows) + result.out.difference = Len(source_df.rows)

\* C5 witness: tables with different columns, the smaller one the source
\* side's counterpart, fail with the difference 2
C5_Witness ==
    /\ Called("check_count")
    /\ source_df.columns # target_df.columns
    /\ Len(source_df.rows) = 2 /\ Len(target_df.rows) = 0
    /\ result.out.exc = "AssertionError"
    /\ result.out.difference = 2

\* The equality comparison of check_data_completeness fails on the tables
ComparisonFails(source, target) == ~FrameEqual(Normalized(source), Normalized(target))

\* The columns the two tables share
SharedColumns(a, b) == Range(a.columns) \cap Range(b.columns)

\* Number of rows of a that agree with no row of b on the shared columns
Unmatched(a, b) ==
    Cardinality({i \in 1..Len(a.rows) :
        \A j \in 1..Len(b.rows) :
            \E c \in SharedColumns(a, b) : a.rows[i][c] # b.rows[j][c]})

\* C11: when the equality comparison fails, check_data_completeness ends
\* with AssertionError whether or not the outer join can be computed.  If
\* it can, the message counts the source-only rows as missing in target
\* and the target-only rows as extra in target; if the join raises, the
\* message has the row-count difference and the list of possible causes.
C11_AlwaysAssertionError ==
    (Called("check_data_completeness") /\ ComparisonFails(source_df, target_df)) =>
        /\ result.out.exc = "AssertionError"
        /\ result.out.source_count = Len(source_df.rows)
        /\ result.out.target_count = Len(target_df.rows)
        /\ result.out.difference + Min(Len(source_df.rows), Len(target_df.rows))
              = Max(Len(source_df.rows), Len(target_df.rows))
        /\ IF SharedColumns(source_df, target_df) # {}
           THEN /\ result.out.detailed /\ ~result.out.causes
                /\ result.out.missing_total = Unmatched(source_df, target_df)
                /\ result.out.extra_total = Unmatched(target_df, source_df)
           ELSE /\ result.out.causes /\ ~result.out.detailed
                /\ result.out.missing_total = 0 /\ result.out.extra_total = 0

\* C11 witness: the tables share no column, the join raises, and the check
\* ends with AssertionError and the list of causes
C11_Witness ==
    /\ Called("check_data_completeness")
    /\ source_df.columns = <<"facility_name">> /\ target_df.columns = <<"min_time_spent">>
    /\ Len(source_df.rows) = 2 /\ Len(target_df.rows) = 1
    /\ result.out.exc = "AssertionError"
    /\ result.out.causes
    /\ result.out.difference = 1

---------------------------------------------------------------------------
(* Properties of the calls on the shared tables (SpecFrame) *)

---------------------------------------------------------------------------
(* Properties of the failure messages (SpecReport) *)

\* A message reports total offending rows with max_display: it shows
\* shown rows, has the note "... and more more" iff note
TruncatedReport(total, max_display, shown, note, more) ==
    /\ shown = (IF total <= max_display THEN total ELSE max_display)
    /\ note <=> total > max_display
    /\ note => more = total - max_display
    /\ shown + (IF note THEN more ELSE 0) = total

\* C13: in the failure messages of check_duplicates and
\* check_data_completeness, for T > 0 offending rows and max_display >= 0,
\* min(T, max_display) rows are shown, the note of N more rows appears iff
\* T > max_display, with N = T - max_display, so shown + N = T.
C13_TruncatedSamples ==
    /\ (Called("check_duplicates") /\ result.out.exc = "AssertionError") =>
          /\ result.out.total > 0
          /\ result.out.first = Len(result.out.sample.rows)
          /\ TruncatedReport(result.out.total, result.args.max_display,
                             Len(result.out.sample.rows), result.out.more_note,
                             result.out.more)
    /\ (Called("check_data_completeness") /\ result.out.exc = "AssertionError") =>
          /\ result.out.missing_total > 0 =>
                TruncatedReport(result.out.missing_total, result.args.max_display,
                                Len(result.out.missing_sample),
                                result.out.missing_more > 0, result.out.missing_more)
          /\ result.out.extra_total > 0 =>
                TruncatedReport(result.out.extra_total, result.args.max_display,
                                Len(result.out.extra_sample),
                                result.out.extra_more > 0, result.out.extra_more)

\* C13 witness: two rows are missing in target, one is shown, one more noted
C13_Witness ==
    /\ Called("check_data_completeness")
    /\ result.out.exc = "AssertionError"
    /\ result.args.max_display = 1
    /\ result.out.missing_total = 2
    /\ Len(result.out.missing_sample) = 1
    /\ result.out.missing_more = 1

---------------------------------------------------------------------------
(* Properties of the connector outside a with-block *)

\* C14: get_data_sql called outside an active with-block, on a connector
\* never entered or on one whose with-block has exited and closed the
\* connection, raises the 'Database connection is not established' error
\* without attempting the query.
C14_NotEstablishedOutsideBlock ==
    (/\ Called("get_data_sql")
     /\ \/ result.args.withBlock = "not_entered"
        \/ /\ result.args.withBlock \in {"left_normally", "left_by_exception"}
           /\ result.args.connection = "closed")
    => /\ result.out.exc = "Exception"
       /\ result.out.context = "Database connection is not established"
       /\ result.out.query_calls = 0

\* C15: if __enter__ raises, no database connection is left open afterwards.
C15_NoOpenConnectionAfterFailedEnter ==
    withBlock = "enter_failed" => connector.connection # "open"

---------------------------------------------------------------------------
(* Properties of the completeness diagnostic (SpecPair) *)

\* C16: whenever check_data_completeness fails on two tables with the same
\* columns and the outer join succeeds, the diagnostic lists at least one
\* row as missing in target or as extra in target, also when the tables
\* differ only in how many times an identical row occurs.
C16_DiagnosticListsARow ==
    (/\ Called("check_data_completeness")
     /\ source_df.columns = target_df.columns
     /\ result.out.exc = "AssertionError"
     /\ result.out.detailed)
    => result.out.missing_total + result.out.extra_total >= 1

=============================================================================
